---- MODULE Spec2Model ----
(***************************************************************************)
(* Grover search on a 2x2 Sudoku-like puzzle: the circuits built by        *)
(* grover_utils.py (oracle, diffusion) and sudoku_solver.py                *)
(* (initialization, solve driver), with the gates' action on the           *)
(* amplitudes and the simulator's tally of measured outcomes.              *)
(*                                                                         *)
(* Amplitudes are real for every gate used (X, H, CZ, MCX).  A state       *)
(* vector is kept exactly as [amp, k]: the amplitude of basis state i is   *)
(* amp[i] / sqrt(2)^k, amp[i] an integer.  Basis state i has qubit q in    *)
(* state Bit(i, q).                                                        *)
(***************************************************************************)
EXTENDS Integers, Sequences, FiniteSets, TLC

VARIABLES
    pc,            \* position of the solver script: idle, executing, returned, raised
    puzzle,        \* argument of the solve_sudoku call in progress
    init_circuit,  \* circuit returned by initialize_sudoku_state
    circuit,       \* circuit composed by solve_sudoku
    amps,          \* state vector the simulator reaches before measurement
    counts,        \* tally of measured outcomes (result.get_counts())
    done,          \* batches of shots the simulator has run in this call
    prior,         \* an earlier solve_sudoku call had returned when this one began
    qn,            \* number of qubits of the circuit applied to vin
    vin,           \* amplitude vector a builder's circuit is applied to
    vout,          \* state vector after the applications so far
    napplied       \* number of applications so far

vars == <<pc, puzzle, init_circuit, circuit, amps, counts, done, prior,
          qn, vin, vout, napplied>>

solverVars == <<pc, puzzle, init_circuit, circuit, amps, counts, done, prior>>
benchVars == <<qn, vin, vout, napplied>>

----------------------------------------------------------------------------
(* Program constants and bounds *)

NumQubits == 4

NumClbits == 4

Shots == 1024

\* longest puzzle passed to solve_sudoku
MaxPuzzleLen == 5

\* the simulator's shots are drawn in NumChunks batches, one outcome per batch
NumChunks == 2

\* largest register diffusion_operator is applied to
MaxN == 4

----------------------------------------------------------------------------
(* Bits of a basis state *)

RECURSIVE Pow2(_)
Pow2(e) ==
    IF e = 0 THEN 1 ELSE 2 * Pow2(e - 1)

Bit(i, q) ==
    (i \div Pow2(q)) % 2

FlipBit(i, q) ==
    IF Bit(i, q) = 0 THEN i + Pow2(q) ELSE i - Pow2(q)

Basis(n) ==
    0 .. (Pow2(n) - 1)

\* range(n) as a sequence: 0, 1, ..., n-1
Range(n) ==
    [j \in 1 .. n |-> j - 1]

----------------------------------------------------------------------------
(* Gates: an instruction of a QuantumCircuit *)

gate_x(q) ==
    [op |-> "x", qubits |-> <<q>>, clbits |-> <<>>]

gate_h(q) ==
    [op |-> "h", qubits |-> <<q>>, clbits |-> <<>>]

gate_cz(a, b) ==
    [op |-> "cz", qubits |-> <<a, b>>, clbits |-> <<>>]

\* controls first, target last
gate_mcx(controls, target) ==
    [op |-> "mcx", qubits |-> controls \o <<target>>, clbits |-> <<>>]

gate_measure(q, c) ==
    [op |-> "measure", qubits |-> <<q>>, clbits |-> <<c>>]

\* circuit.x(range(n)), circuit.h(range(n)): one gate per qubit, in order
x_all(n) ==
    [j \in 1 .. n |-> gate_x(j - 1)]

h_all(n) ==
    [j \in 1 .. n |-> gate_h(j - 1)]

\* circuit.measure(qr, cr): qubit i into classical bit i
measure_all(n) ==
    [j \in 1 .. n |-> gate_measure(j - 1, j - 1)]

\* circuit.compose(other, inplace=True): other's instructions appended
compose(circ, other) ==
    circ \o other

----------------------------------------------------------------------------
(* The gates' action on a state vector *)

ApplyX(amp, q, n) ==
    [i \in Basis(n) |-> amp[FlipBit(i, q)]]

\* Hadamard without its 1/sqrt(2): the caller counts it in k
ApplyH(amp, q, n) ==
    [i \in Basis(n) |->
        IF Bit(i, q) = 0
        THEN amp[i] + amp[i + Pow2(q)]
        ELSE amp[i - Pow2(q)] - amp[i]]

ApplyCZ(amp, a, b, n) ==
    [i \in Basis(n) |->
        IF Bit(i, a) = 1 /\ Bit(i, b) = 1 THEN 0 - amp[i] ELSE amp[i]]

ApplyMCX(amp, qs, n) ==
    LET target == qs[Len(qs)]
        fires(i) == \A j \in 1 .. (Len(qs) - 1) : Bit(i, qs[j]) = 1
    IN  [i \in Basis(n) |-> IF fires(i) THEN amp[FlipBit(i, target)] ELSE amp[i]]

\* f itself; comparing it makes TLC tabulate it once instead of recomputing
\* its defining expression at every application
Evaluated(f) ==
    IF f = <<>> THEN f ELSE f

ApplyGate(g, sv, n) ==
    CASE g.op = "x" -> [amp |-> Evaluated(ApplyX(sv.amp, g.qubits[1], n)), k |-> sv.k]
      [] g.op = "h" -> [amp |-> Evaluated(ApplyH(sv.amp, g.qubits[1], n)), k |-> sv.k + 1]
      [] g.op = "cz" ->
            [amp |-> Evaluated(ApplyCZ(sv.amp, g.qubits[1], g.qubits[2], n)), k |-> sv.k]
      [] g.op = "mcx" -> [amp |-> Evaluated(ApplyMCX(sv.amp, g.qubits, n)), k |-> sv.k]
      [] OTHER -> sv

\* the gates of circ applied in order (k is never negative: the tests on it
\* only fix the order of evaluation, each gate before the next)
RECURSIVE Run(_, _, _)
Run(circ, sv, n) ==
    IF circ = <<>> THEN sv
    ELSE LET next == ApplyGate(Head(circ), sv, n)
         IN  IF next.k >= 0 THEN Run(Tail(circ), next, n) ELSE sv

\* the same vector with the least k: amp / sqrt(2)^k = (amp/2) / sqrt(2)^(k-2)
RECURSIVE Reduce(_, _)
Reduce(sv, n) ==
    IF /\ sv.k >= 2
       /\ \A i \in Basis(n) : sv.amp[i] % 2 = 0
       /\ \E i \in Basis(n) : sv.amp[i] # 0
    THEN LET half == [amp |-> Evaluated([i \in Basis(n) |-> sv.amp[i] \div 2]),
                      k |-> sv.k - 2]
         IN  IF half.k >= 0 THEN Reduce(half, n) ELSE sv
    ELSE sv

Simulate(circ, sv, n) ==
    LET out == Run(circ, sv, n)
    IN  IF out.k >= 0 THEN Reduce(out, n) ELSE sv

\* |0...0>
ZeroState(n) ==
    [amp |-> [i \in Basis(n) |-> IF i = 0 THEN 1 ELSE 0], k |-> 0]

----------------------------------------------------------------------------
(* grover_utils.py *)

\* construct_oracle with cz(0, 1) spelled h(1), cx(0, 1) and the closing h(1) left out
construct_oracle_open ==
    <<gate_h(1), gate_mcx(<<0>>, 1), gate_cz(2, 3)>>

construct_oracle ==
    <<gate_cz(0, 1), gate_cz(2, 3)>>

\* diffusion_operator without steps 3 and 5 (the Hadamards around the mcx)
diffusion_operator_plain_mcx(num_qubits) ==
    compose(compose(compose(compose(
        h_all(num_qubits),
        x_all(num_qubits)),
        <<gate_mcx(Range(num_qubits - 1), num_qubits - 1)>>),
        x_all(num_qubits)),
        h_all(num_qubits))

diffusion_operator(num_qubits) ==
    compose(compose(compose(compose(compose(compose(
        h_all(num_qubits),
        x_all(num_qubits)),
        <<gate_h(num_qubits - 1)>>),
        <<gate_mcx(Range(num_qubits - 1), num_qubits - 1)>>),
        <<gate_h(num_qubits - 1)>>),
        x_all(num_qubits)),
        h_all(num_qubits))

----------------------------------------------------------------------------
(* sudoku_solver.py *)

\* for i, value in enumerate(puzzle): if value == 1: circuit.x(qr[i])
\* qr[i] is evaluated only for a flag of 1, and fails for i >= 4
RECURSIVE InitLoop(_, _, _)
InitLoop(p, i, ops) ==
    IF i >= Len(p) THEN [raised |-> FALSE, ops |-> ops]
    ELSE IF p[i + 1] = 1
         THEN IF i >= NumQubits
              THEN [raised |-> TRUE, ops |-> <<>>]
              ELSE InitLoop(p, i + 1, Append(ops, gate_x(i)))
         ELSE InitLoop(p, i + 1, ops)

\* initialize_sudoku_state testing value == 0 instead of value == 1
RECURSIVE InitLoopOnZero(_, _, _)
InitLoopOnZero(p, i, ops) ==
    IF i >= Len(p) THEN [raised |-> FALSE, ops |-> ops]
    ELSE IF p[i + 1] = 0
         THEN IF i >= NumQubits
              THEN [raised |-> TRUE, ops |-> <<>>]
              ELSE InitLoopOnZero(p, i + 1, Append(ops, gate_x(i)))
         ELSE InitLoopOnZero(p, i + 1, ops)

initialize_sudoku_state_on_zero(p) ==
    InitLoopOnZero(p, 0, <<>>)

\* initialize_sudoku_state reading qr[i] before it tests the flag
RECURSIVE InitLoopIndexFirst(_, _, _)
InitLoopIndexFirst(p, i, ops) ==
    IF i >= Len(p) THEN [raised |-> FALSE, ops |-> ops]
    ELSE IF i >= NumQubits
         THEN [raised |-> TRUE, ops |-> <<>>]
         ELSE IF p[i + 1] = 1
              THEN InitLoopIndexFirst(p, i + 1, Append(ops, gate_x(i)))
              ELSE InitLoopIndexFirst(p, i + 1, ops)

initialize_sudoku_state_index_first(p) ==
    InitLoopIndexFirst(p, 0, <<>>)

initialize_sudoku_state(p) ==
    InitLoop(p, 0, <<>>)

\* lines 46-64: initialization, superposition, oracle, diffusion, measurement
SolveCircuit(init) ==
    compose(compose(compose(compose(
        init,
        h_all(NumQubits)),
        construct_oracle),
        diffusion_operator(NumQubits)),
        measure_all(NumQubits))

Puzzles ==
    UNION {[1 .. len -> {0, 1}] : len \in NumQubits .. MaxPuzzleLen}

ValidPuzzle(p) ==
    Len(p) = NumQubits /\ \A j \in 1 .. Len(p) : p[j] \in {0, 1}

\* the state vector solve_sudoku's circuit reaches before measurement, per puzzle
SolvedState ==
    Evaluated([p \in Puzzles |->
        LET init == initialize_sudoku_state(p)
        IN  IF init.raised THEN ZeroState(NumQubits)
            ELSE Simulate(SolveCircuit(init.ops), ZeroState(NumQubits), NumQubits)])

----------------------------------------------------------------------------
(* The simulator: execute(circuit, backend, shots=1024).result().get_counts() *)

EmptyCounts ==
    [key \in {} |-> 0]

\* value of classical bit c after measuring basis state o: the last measure into c
ClbitValue(circ, c, o) ==
    LET at == {j \in 1 .. Len(circ) : circ[j].op = "measure" /\ circ[j].clbits = <<c>>}
    IN  IF at = {} THEN 0
        ELSE Bit(o, circ[CHOOSE j \in at : \A j2 \in at : j2 <= j].qubits[1])

\* Key for a circuit measured into a second classical register (measure_all()):
\* the new register's bits, a space, the bits of the unused register cr
KeyTwoRegisters(circ, o) ==
    [j \in 1 .. NumClbits |->
        IF ClbitValue(circ, NumClbits - j, o) = 1 THEN "1" ELSE "0"]
    \o <<" ">> \o [j \in 1 .. NumClbits |-> "0"]

\* the key of an outcome: one character per classical bit, highest bit first
Key(circ, o) ==
    [j \in 1 .. NumClbits |->
        IF ClbitValue(circ, NumClbits - j, o) = 1 THEN "1" ELSE "0"]

\* outcomes with a nonzero probability
Support(sv) ==
    {i \in DOMAIN sv.amp : sv.amp[i] # 0}

\* number of shots in batch c (1..NumChunks): the last batch takes the remainder
ChunkSize(c) ==
    IF c < NumChunks
    THEN Shots \div NumChunks
    ELSE Shots - (NumChunks - 1) * (Shots \div NumChunks)

\* ResultCounts for a tally kept across calls (a module-level dictionary)
ResultCountsKept(prev, batches) ==
    prev

\* the tally a run starts from: each execute() returns a fresh result
ResultCounts(prev, batches) ==
    IF batches = 0 THEN EmptyCounts ELSE prev

AddCount(c, key, m) ==
    [k \in (DOMAIN c) \cup {key} |->
        (IF k \in DOMAIN c THEN c[k] ELSE 0) + (IF k = key THEN m ELSE 0)]

RECURSIVE SumOver(_, _)
SumOver(c, keys) ==
    IF keys = {} THEN 0
    ELSE LET k == CHOOSE k \in keys : TRUE
         IN  c[k] + SumOver(c, keys \ {k})

Total(c) ==
    SumOver(c, DOMAIN c)

----------------------------------------------------------------------------
(* The solver script *)

Init ==
    /\ pc = "idle"
    /\ puzzle = <<>>
    /\ init_circuit = <<>>
    /\ circuit = <<>>
    /\ amps = ZeroState(NumQubits)
    /\ counts = EmptyCounts
    /\ done = 0
    /\ prior = FALSE
    /\ qn = 0
    /\ vin = <<>>
    /\ vout = <<>>
    /\ napplied = 0

\* solve_sudoku(p), lines 46-64: the circuit is built and handed to the simulator,
\* or initialize_sudoku_state raises and the call fails
Build(p) ==
    /\ pc \in {"idle", "returned"}
    /\ puzzle' = p
    /\ done' = 0
    /\ LET init == initialize_sudoku_state(p)
       IN  IF init.raised
           THEN /\ pc' = "raised"
                /\ init_circuit' = <<>>
                /\ circuit' = <<>>
                /\ amps' = ZeroState(NumQubits)
           ELSE /\ pc' = "executing"
                /\ init_circuit' = init.ops
                /\ circuit' = SolveCircuit(init.ops)
                /\ amps' = SolvedState[p]
    /\ prior' = (pc = "returned")
    /\ UNCHANGED <<counts, benchVars>>

\* line 68: one batch of shots, all measuring outcome o
Sample(o) ==
    /\ pc = "executing"
    /\ done < NumChunks
    /\ o \in Support(amps)
    /\ counts' = AddCount(ResultCounts(counts, done), Key(circuit, o), ChunkSize(done + 1))
    /\ done' = done + 1
    /\ UNCHANGED <<pc, puzzle, init_circuit, circuit, amps, prior, benchVars>>

\* lines 69-75: the tally is returned; the call's locals are gone
Return ==
    /\ pc = "executing"
    /\ done = NumChunks
    /\ pc' = "returned"
    /\ puzzle' = <<>>
    /\ init_circuit' = <<>>
    /\ circuit' = <<>>
    /\ amps' = ZeroState(NumQubits)
    /\ UNCHANGED <<counts, done, prior, benchVars>>

Next ==
    \/ \E p \in Puzzles : Build(p)
    \/ \E o \in Basis(NumQubits) : Sample(o)
    \/ Return

Spec ==
    Init /\ [][Next]_vars

----------------------------------------------------------------------------
(* The builders' circuits applied to amplitude vectors *)

\* vectors with one or two nonzero amplitudes
InputVectors(n) ==
    {[i \in Basis(n) |-> IF i = a THEN va ELSE IF i = b THEN vb ELSE 0] :
        <<a, va, b, vb>> \in Basis(n) \X {1, -1} \X Basis(n) \X {-1, 0, 1, 2}}

AsState(v) ==
    [amp |-> v, k |-> 0]

InitBench(sizes) ==
    /\ pc = "idle"
    /\ puzzle = <<>>
    /\ init_circuit = <<>>
    /\ circuit = <<>>
    /\ amps = ZeroState(NumQubits)
    /\ counts = EmptyCounts
    /\ done = 0
    /\ prior = FALSE
    /\ qn \in sizes
    /\ vin \in InputVectors(qn)
    /\ vout = AsState(vin)
    /\ napplied = 0

InitOracle ==
    InitBench({NumQubits})

\* the circuit of construct_oracle(), applied once more
ApplyOracle ==
    /\ napplied < 2
    /\ vout' = Simulate(construct_oracle, vout, qn)
    /\ napplied' = napplied + 1
    /\ UNCHANGED <<qn, vin, solverVars>>

SpecOracle ==
    InitOracle /\ [][ApplyOracle]_vars

InitDiffusion ==
    InitBench(2 .. MaxN)

\* the circuit of diffusion_operator(qn), applied once
ApplyDiffusion ==
    /\ napplied < 1
    /\ vout' = Simulate(diffusion_operator(qn), vout, qn)
    /\ napplied' = napplied + 1
    /\ UNCHANGED <<qn, vin, solverVars>>

SpecDiffusion ==
    InitDiffusion /\ [][ApplyDiffusion]_vars

----------------------------------------------------------------------------
(* Properties *)

\* a valid solution: unit 0 differs from unit 1 and unit 2 differs from unit 3
IsSolution(i) ==
    Bit(i, 0) # Bit(i, 1) /\ Bit(i, 2) # Bit(i, 3)

\* the oracle inverts the sign of basis state i
Marked(i) ==
    Simulate(construct_oracle,
             AsState([j \in Basis(NumQubits) |-> IF j = i THEN 1 ELSE 0]),
             NumQubits).amp[i] = -1

\* measurement probability of basis state i, times 2^k
Weight(sv, i) ==
    sv.amp[i] * sv.amp[i]

RECURSIVE SumAmps(_, _)
SumAmps(v, idx) ==
    IF idx = {} THEN 0
    ELSE LET i == CHOOSE i \in idx : TRUE
         IN  v[i] + SumAmps(v, idx \ {i})

\* the call in progress has run all its shots: counts is the tally it returns
Counted ==
    pc = "executing" /\ done = NumChunks

\* C1: every solve_sudoku call with a valid puzzle returns without raising, and
\* the counts of the tally it returns sum to 1024, whatever calls came before.
C1_TallySumsToShots ==
    /\ (pc = "raised" => ~ValidPuzzle(puzzle))
    /\ (Counted /\ ValidPuzzle(puzzle) => Total(counts) = 1024)
    /\ (pc = "returned" => Total(counts) = 1024)

\* a second call with a valid puzzle has its tally, with two distinct keys
C1_Witness ==
    /\ Counted
    /\ ValidPuzzle(puzzle)
    /\ prior
    /\ Cardinality(DOMAIN counts) = 2

\* C2: the oracle's circuit inverts the sign of a basis state's amplitude exactly
\* when the state violates a constraint (unit 0 = unit 1, or unit 2 = unit 3),
\* and leaves the amplitude of a state satisfying both unchanged.
C2_OracleMarksViolations ==
    napplied = 1 =>
        /\ vout.k = 0
        /\ \A i \in Basis(NumQubits) :
                vout.amp[i] = (IF IsSolution(i) THEN vin[i] ELSE 0 - vin[i])

\* C3: for every valid puzzle, every valid solution is measured with a strictly
\* higher probability than every state violating a constraint.
C3_SolutionsAmplified ==
    (pc = "executing" /\ ValidPuzzle(puzzle)) =>
        \A s \in Basis(NumQubits) : \A v \in Basis(NumQubits) :
            (IsSolution(s) /\ ~IsSolution(v)) => Weight(amps, s) > Weight(amps, v)

\* C4: the oracle's circuit applied twice in a row is the identity: every
\* amplitude ends with the sign and the magnitude it started with.
C4_OracleTwiceIsIdentity ==
    napplied = 2 => vout = AsState(vin)

\* the oracle was applied twice to the basis state 0011, whose sign it inverts
C4_Witness ==
    /\ napplied = 2
    /\ Marked(3)
    /\ vin = [i \in Basis(NumQubits) |-> IF i = 3 THEN 1 ELSE 0]

\* C6 as stated: every puzzle longer than 4 makes the solve invocation fail.
C6_LongPuzzleFails ==
    (pc \in {"executing", "raised"} /\ Len(puzzle) > NumQubits) => pc = "raised"

\* C6 amended: a puzzle longer than 4 makes the solve invocation fail, with no
\* circuit run and no shot tallied, exactly when a position from index 4 on
\* holds flag 1; with flag 0 at all of them the call goes on to its tally.
C6_LongPuzzleFailsOnFlag ==
    (pc \in {"executing", "raised"} /\ Len(puzzle) > NumQubits) =>
        /\ (pc = "raised") <=> (\E j \in (NumQubits + 1) .. Len(puzzle) : puzzle[j] = 1)
        /\ (pc = "raised" => (done = 0 /\ circuit = <<>>))

\* a call with a puzzle longer than 4 has failed
C6_Witness ==
    pc = "raised" /\ Len(puzzle) > NumQubits

\* C7: for a length-4 puzzle the initialization circuit holds exactly one X gate
\* on unit i for each position i with flag 1, in position order, and no gate on
\* a position with flag 0; the all-zero puzzle yields no gate.
C7_InitCircuitGates ==
    (pc = "executing" /\ ValidPuzzle(puzzle)) =>
        /\ \A j \in 1 .. Len(init_circuit) : init_circuit[j].op = "x"
        /\ \A i \in 0 .. (NumQubits - 1) :
                Cardinality({j \in 1 .. Len(init_circuit) :
                                init_circuit[j].qubits = <<i>>}) = puzzle[i + 1]
        /\ \A j \in 1 .. Len(init_circuit) : \A j2 \in 1 .. Len(init_circuit) :
                j < j2 => init_circuit[j].qubits[1] < init_circuit[j2].qubits[1]
        /\ ((\A j \in 1 .. Len(puzzle) : puzzle[j] = 0) => init_circuit = <<>>)

\* the initialization circuit of a puzzle with flags 1 and flags 0
C7_Witness ==
    /\ pc = "executing"
    /\ puzzle = <<0, 1, 0, 1>>
    /\ Len(init_circuit) = 2

\* C8: every key of the tally is a string of exactly 4 characters, each 0 or 1.
C8_KeysAreFourBits ==
    pc \in {"executing", "returned"} =>
        \A key \in DOMAIN counts :
            /\ Len(key) = 4
            /\ \A j \in 1 .. 4 : key[j] \in {"0", "1"}

\* a returned tally with the keys 0001 and 1000
C8_Witness ==
    /\ pc = "returned"
    /\ DOMAIN counts = {<<"0", "0", "0", "1">>, <<"1", "0", "0", "0">>}

\* C9: diffusion_operator(N), N >= 2, maps every amplitude vector a to
\* 2*mean(a) - a at every basis state, up to one sign for the whole vector.
\* With S the sum of a: vout.amp[i] / sqrt(2)^k = s * (2*S/2^N - a[i]).
C9_DiffusionReflectsAboutMean ==
    (napplied = 1 /\ qn >= 2) =>
        /\ vout.k % 2 = 0
        /\ \E s \in {1, -1} : \A i \in Basis(qn) :
                vout.amp[i] * Pow2(qn) =
                    s * Pow2(vout.k \div 2)
                      * (2 * SumAmps(vin, Basis(qn)) - Pow2(qn) * vin[i])

\* the 4-qubit diffusion was applied to a vector with two unequal amplitudes
C9_Witness ==
    /\ napplied = 1
    /\ qn = 4
    /\ vin[0] = 1
    /\ vin[5] = 2

\* C10: for every valid puzzle, every basis state whose sign the oracle inverts
\* is measured with a strictly higher probability than every state it leaves.
C10_MarkedAmplified ==
    (pc = "executing" /\ ValidPuzzle(puzzle)) =>
        \A m \in Basis(NumQubits) : \A u \in Basis(NumQubits) :
            (Marked(m) /\ ~Marked(u)) => Weight(amps, m) > Weight(amps, u)

====
